---- MODULE Spec2Model ----
(***************************************************************************)
(* A model of sqlpie (bin/sqlpie.js): find/replace over an SQL dump that   *)
(* holds PHP-serialized strings  s:<len>:"<value>";                        *)
(*                                                                         *)
(* Text is modelled as a sequence of one-character strings, so that the    *)
(* regular expressions of the program are computed character by character. *)
(* A find pattern is the record [lit, grp]: the regular expression source  *)
(* is the literal text lit, followed by an empty capture group "()" when   *)
(* grp is TRUE.  The literals used hold no regular-expression              *)
(* metacharacter.  A replace string is plain text in which "$1", "$$" and  *)
(* "$&" have the meaning String.prototype.replace gives them.              *)
(***************************************************************************)
EXTENDS Integers, Sequences, FiniteSets, TLC

\* ------------------------------------------------------------------ bounds

\* The most fragments a generated input document is made of.
MaxFrags == 2

\* ------------------------------------------------------------- characters

Digits == {"0", "1", "2", "3", "4", "5", "6", "7", "8", "9"}

\* The characters "." does not match in a JavaScript regular expression.
LineTerminators == {"\n", "\r"}

\* The class [;{}] that opens the scanner's pattern.
Delims == {";", "{", "}"}

DigitVal(c) ==
  CASE c = "0" -> 0 [] c = "1" -> 1 [] c = "2" -> 2 [] c = "3" -> 3
    [] c = "4" -> 4 [] c = "5" -> 5 [] c = "6" -> 6 [] c = "7" -> 7
    [] c = "8" -> 8 [] c = "9" -> 9

DigitChar(n) == CHOOSE c \in Digits : DigitVal(c) = n

\* Number to text, as string concatenation ('s:' + n) renders it.
RECURSIVE ToStr(_)
ToStr(n) ==
  IF n < 10 THEN <<DigitChar(n)>>
  ELSE ToStr(n \div 10) \o <<DigitChar(n % 10)>>

\* parseInt of a run of decimal digits.
RECURSIVE parseInt(_)
parseInt(ds) ==
  IF Len(ds) = 0 THEN 0
  ELSE 10 * parseInt(SubSeq(ds, 1, Len(ds) - 1)) + DigitVal(ds[Len(ds)])

\* The number of consecutive digits of s from position k on (greedy \d+).
RECURSIVE DigitRun(_, _)
DigitRun(s, k) ==
  IF k <= Len(s) /\ s[k] \in Digits THEN 1 + DigitRun(s, k + 1) ELSE 0

\* The number of consecutive non-quote characters from k on (greedy [^"]+).
RECURSIVE NonQuoteRun(_, _)
NonQuoteRun(s, k) ==
  IF k <= Len(s) /\ s[k] # "\"" THEN 1 + NonQuoteRun(s, k + 1) ELSE 0

Tail2(s) == SubSeq(s, 3, Len(s))

\* Whether text w stands in s at position i.
LitAt(w, s, i) ==
  /\ i >= 1
  /\ i + Len(w) - 1 <= Len(s)
  /\ \A k \in 1..Len(w) : s[i + k - 1] = w[k]

\* The first position >= i where w stands in s, 0 when there is none.
RECURSIVE IndexFrom(_, _, _)
IndexFrom(w, s, i) ==
  IF i + Len(w) - 1 > Len(s) THEN 0
  ELSE IF LitAt(w, s, i) THEN i
  ELSE IndexFrom(w, s, i + 1)

Contains(s, w) == IndexFrom(w, s, 1) # 0

\* ---------------------------------------------- String.prototype.replace

\* The replacement text for one match: "$$" is a dollar sign, "$&" the
\* matched text, "$1" the first group's capture when the pattern has a group
\* (the empty text: the group is "()") and the two characters otherwise.
RECURSIVE Expand(_, _, _)
Expand(tpl, grp, matched) ==
  IF Len(tpl) = 0 THEN <<>>
  ELSE IF Len(tpl) >= 2 /\ tpl[1] = "$" /\ tpl[2] = "$"
    THEN <<"$">> \o Expand(Tail2(tpl), grp, matched)
  ELSE IF Len(tpl) >= 2 /\ tpl[1] = "$" /\ tpl[2] = "&"
    THEN matched \o Expand(Tail2(tpl), grp, matched)
  ELSE IF Len(tpl) >= 2 /\ tpl[1] = "$" /\ tpl[2] = "1" /\ grp
    THEN Expand(Tail2(tpl), grp, matched)
  ELSE <<tpl[1]>> \o Expand(Tail(tpl), grp, matched)

\* s.replace(new RegExp(find, 'g'), replace) from position i on: every
\* non-overlapping match, left to right.
RECURSIVE ReplaceFrom(_, _, _, _)
ReplaceFrom(s, find, replace, i) ==
  IF i > Len(s) THEN <<>>
  ELSE IF LitAt(find.lit, s, i)
    THEN Expand(replace, find.grp, find.lit)
         \o ReplaceFrom(s, find, replace, i + Len(find.lit))
  ELSE <<s[i]>> \o ReplaceFrom(s, find, replace, i + 1)

ReplaceAll(s, find, replace) == ReplaceFrom(s, find, replace, 1)

\* s.replace(new RegExp(key), repl): the first match only.
ReplaceFirst(s, find, replace) ==
  LET p == IndexFrom(find.lit, s, 1)
  IN IF p = 0 THEN s
     ELSE SubSeq(s, 1, p - 1)
          \o Expand(replace, find.grp, find.lit)
          \o SubSeq(s, p + Len(find.lit), Len(s))

\* re.test(s)
Test(find, s) == Contains(s, find.lit)

\* (source.match(new RegExp(find, 'gm')) || []).length from position i on.
RECURSIVE CountFrom(_, _, _)
CountFrom(find, source, i) ==
  LET p == IndexFrom(find.lit, source, i)
  IN IF p = 0 THEN 0 ELSE 1 + CountFrom(find, source, p + Len(find.lit))

countMatches(find, source) == CountFrom(find, source, 1)

\* ------------------------------------------------------------- the scanner

\* The length of the match of /[;{}]s:(\d+):"([^"]+)";/ that starts at
\* position i of s, 0 when the pattern does not match there.  \d+ and [^"]+
\* are greedy and what follows them cannot occur inside them, so the match
\* at a position is unique.
ScanMatchLen(s, i) ==
  LET d == DigitRun(s, i + 3)
      q == i + 3 + d
      v == NonQuoteRun(s, q + 2)
      e == q + 2 + v
  IN IF /\ i + 2 <= Len(s)
        /\ s[i] \in Delims
        /\ s[i + 1] = "s"
        /\ s[i + 2] = ":"
        /\ d >= 1
        /\ q + 1 <= Len(s)
        /\ s[q] = ":"
        /\ s[q + 1] = "\""
        /\ v >= 1
        /\ e + 1 <= Len(s)
        /\ s[e] = "\""
        /\ s[e + 1] = ";"
     THEN e + 2 - i
     ELSE 0

\* sql.match(new RegExp(re, 'g')) || []: the non-overlapping matches from
\* position i on, each with the position it starts at (the position is not
\* part of the program's data; it is kept to say where a token stands).
RECURSIVE ScanFrom(_, _)
ScanFrom(s, i) ==
  IF i > Len(s) THEN <<>>
  ELSE LET n == ScanMatchLen(s, i)
       IN IF n > 0
          THEN <<[at |-> i, text |-> SubSeq(s, i, i + n - 1)]>>
               \o ScanFrom(s, i + n)
          ELSE ScanFrom(s, i + 1)

\* match.match(/^.s:(\d+):"(.*)";$/): TRUE when the second pattern matches
\* the whole text m.  "." and ".*" match no line terminator, and $ (no m
\* flag) is the end of the text.
Re2Matches(m) ==
  LET d == DigitRun(m, 4)
      p == 6 + d
  IN /\ Len(m) >= 3
     /\ m[1] \notin LineTerminators
     /\ m[2] = "s"
     /\ m[3] = ":"
     /\ d >= 1
     /\ Len(m) >= p + 1
     /\ m[4 + d] = ":"
     /\ m[5 + d] = "\""
     /\ m[Len(m) - 1] = "\""
     /\ m[Len(m)] = ";"
     /\ \A k \in p..(Len(m) - 2) : m[k] \notin LineTerminators

\* The record built from parts = match.match(re2).
TokenOf(at, m) ==
  LET d == DigitRun(m, 4)
  IN [at     |-> at,
      source |-> m,
      chars  |-> parseInt(SubSeq(m, 4, 3 + d)),
      value  |-> SubSeq(m, 6 + d, Len(m) - 2)]

\* findSerializedStrings(sql).  parts is null for a match the second pattern
\* rejects, and parts[0] then throws a TypeError: threw is TRUE and no list
\* is returned.
findSerializedStrings(sql) ==
  LET matches == ScanFrom(sql, 1)
      bad == \E k \in 1..Len(matches) : ~Re2Matches(matches[k].text)
  IN [threw |-> bad,
      strings |-> IF bad THEN <<>>
                  ELSE [k \in 1..Len(matches) |->
                          TokenOf(matches[k].at, matches[k].text)]]

\* ------------------------------------------------------------- the planner

\* rewriteValue.replace(/^.s:\d+:"([^"]+)".$/, '$1').length: the length of
\* the quoted text when the pattern matches the whole of rv, and the length
\* of rv itself when it does not (replace then returns rv as it is).
RewriteCharsOf(rv) ==
  LET d == DigitRun(rv, 4)
      v == NonQuoteRun(rv, 6 + d)
      e == 6 + d + v
  IN IF /\ Len(rv) >= 3
        /\ rv[1] \notin LineTerminators
        /\ rv[2] = "s"
        /\ rv[3] = ":"
        /\ d >= 1
        /\ Len(rv) >= 5 + d
        /\ rv[4 + d] = ":"
        /\ rv[5 + d] = "\""
        /\ v >= 1
        /\ e + 1 = Len(rv)
        /\ rv[e] = "\""
        /\ rv[e + 1] \notin LineTerminators
     THEN v
     ELSE Len(rv)

\* string.rewriteValue of a token find does not match (null).
NullValue == <<"null">>

\* The _.map callback of rewriteSerializedSql: the token with its rewrite.
PlanOne(string, find, replace) ==
  LET hit == Test(find, string.source)
      rv == IF hit THEN ReplaceAll(string.source, find, replace)
            ELSE NullValue
  IN [at           |-> string.at,
      source       |-> string.source,
      chars        |-> string.chars,
      value        |-> string.value,
      rewriteValue |-> rv,
      rewriteChars |-> IF hit THEN RewriteCharsOf(rv) ELSE 0]

PlanAll(strings, find, replace) ==
  [k \in 1..Len(strings) |-> PlanOne(strings[k], find, replace)]

\* replaceCount: the tokens find matches, counted before the filter.
ReplaceCountOf(strings, find) ==
  Cardinality({k \in 1..Len(strings) : Test(find, strings[k].source)})

\* "remove empties": _.filter(strings, rewriteChars !== 0).
KeepNonEmpty(string) == string.rewriteChars # 0

RemoveEmpties(strings) == SelectSeq(strings, KeepNonEmpty)

\* ------------------------------------------------------------- the patcher

\* The text the patcher searches for: 's:' + chars + ':"' + value + '"'.
KeyOf(string) ==
  <<"s", ":">> \o ToStr(string.chars) \o <<":", "\"">> \o string.value
    \o <<"\"">>

\* The replacement: 's:' + rewriteChars + ':"' + rewriteValue + '"'.
ReplacementOf(string) ==
  <<"s", ":">> \o ToStr(string.rewriteChars) \o <<":", "\"">>
    \o string.rewriteValue \o <<"\"">>

\* sql.replace(new RegExp(key), replacement): one token patched.
PatchOne(sql, string) ==
  ReplaceFirst(sql, [lit |-> KeyOf(string), grp |-> FALSE],
               ReplacementOf(string))

\* _.each(strings, ...): the tokens from the k-th on, patched in order.
RECURSIVE PatchAll(_, _, _)
PatchAll(sql, strings, k) ==
  IF k > Len(strings) THEN sql
  ELSE PatchAll(PatchOne(sql, strings[k]), strings, k + 1)

\* --------------------------------------------------------------- the inputs

hello == <<"h", "e", "l", "l", "o">>
world == <<"w", "o", "r", "l", "d">>
hi == <<"h", "i">>
goodbye == <<"g", "o", "o", "d", "b", "y", "e">>

\* The serialized string  s:<n>:"<v>";  and the same after a delimiter d.
Tok(n, v) == <<"s", ":">> \o ToStr(n) \o <<":", "\"">> \o v \o <<"\"", ";">>

DTok(d, n, v) == <<d>> \o Tok(n, v)

\* The pieces input documents are made of: serialized strings with and
\* without a delimiter before them, one whose value holds a line break, and
\* plain text.
Fragments ==
  { DTok(";", 5, hello),
    Tok(5, hello),
    hello \o <<" ">>,
    DTok(";", 1, <<"a">>),
    DTok(";", 3, <<"a", "a", "b">>),
    DTok(";", 3, <<"a", "b", "a">>),
    DTok("{", 3, <<"a", "\n", "b">>),
    <<"}">> }

RECURSIVE DocsOf(_)
DocsOf(n) ==
  IF n = 0 THEN {<<>>}
  ELSE LET prev == DocsOf(n - 1)
       IN prev \cup {d \o f : d \in prev, f \in Fragments}

\* a:1:{i:0;s:5:"hello";}
DocArray == <<"a", ":", "1", ":", "{", "i", ":", "0">>
              \o DTok(";", 5, hello) \o <<"}">>

\* WHERE s:5:"hello";
DocWhere == <<"W", "H", "E", "R", "E", " ">> \o Tok(5, hello)

\* UPDATE t SET x='hello' WHERE s:5:"hello";
DocUpdate ==
  <<"U", "P", "D", "A", "T", "E", " ", "t", " ", "S", "E", "T", " ",
    "x", "=", "'">> \o hello \o <<"'", " ">> \o DocWhere

Docs == DocsOf(MaxFrags) \cup {DocArray, DocWhere, DocUpdate}

Lit(w) == [lit |-> w, grp |-> FALSE]

LitGrp(w) == [lit |-> w, grp |-> TRUE]

\* The --find and --replace options of a run.
Pairs ==
  { [find |-> Lit(hello), replace |-> world],
    [find |-> Lit(hello), replace |-> hi],
    [find |-> Lit(hello), replace |-> goodbye],
    [find |-> Lit(<<"a">>), replace |-> <<"a", "a">>],
    [find |-> Lit(<<"a", "b">>), replace |-> <<"b", "a">>],
    [find |-> LitGrp(hello), replace |-> <<"$", "1">>],
    [find |-> LitGrp(DTok(";", 1, <<"a">>)), replace |-> <<"$", "1">>],
    [find |-> Lit(<<"z", "z">>), replace |-> <<"y">>] }

\* options.output
OutputPath == <<"o", "u", "t">>

\* ----------------------------------------------------------------- the state

VARIABLES
  inputKind,     \* what options.input names: "file", "missing", "notfile"
  fileText,      \* the contents of the input file
  find,          \* options.find
  replace,       \* options.replace
  verbose,       \* program.verbose
  pc,            \* the stage about to run
  err,           \* the error handed to complete
  data,          \* the data object: [sql, count]
  sql,           \* rewriteSerializedSql's local sql
  strings,       \* rewriteSerializedSql's strings, after the filter
  replaceCount,  \* rewriteSerializedSql's replaceCount
  idx,           \* the timer callback's idx
  bar,           \* the progress bar: [curr, total, complete]
  outFile,       \* the contents of the output file
  writes,        \* the number of times the output file was written
  exitCode,      \* the process's exit code, -1 while it runs
  threw,         \* an exception nobody catches ended the process
  stagesDone,    \* history: the stages that called back without error
  scanState,     \* history: "none", "ok" or "threw"
  scanned,       \* history: what findSerializedStrings returned
  patchLog,      \* history: per substitution, where it replaced
  offs,          \* history: where each planned token's key now stands
  handed,        \* history: the document reserialize handed on
  callbacks      \* history: calls of rewriteSerializedSql's callback

vars ==
  <<inputKind, fileText, find, replace, verbose, pc, err, data, sql,
    strings, replaceCount, idx, bar, outFile, writes, exitCode, threw,
    stagesDone, scanState, scanned, patchLog, offs, handed, callbacks>>

options == <<inputKind, fileText, find, replace, verbose>>

patcher == <<sql, strings, replaceCount, idx, bar>>

history == <<scanState, scanned, patchLog, offs, handed, callbacks>>

\* The state when async.waterfall starts.  The option test before it prints
\* the help and returns unless all four options are non-empty, so find and
\* replace are non-empty here.
Init ==
  /\ inputKind \in {"file", "missing", "notfile"}
  /\ fileText \in (IF inputKind = "file" THEN Docs ELSE {<<>>})
  /\ \E p \in Pairs : find = p.find /\ replace = p.replace
  /\ verbose \in BOOLEAN
  /\ pc = "initialize"
  /\ err = FALSE
  /\ data = [sql |-> <<>>, count |-> 0]
  /\ sql = <<>>
  /\ strings = <<>>
  /\ replaceCount = 0
  /\ idx = 0
  /\ bar = [curr |-> 0, total |-> 0, complete |-> FALSE]
  /\ outFile = <<>>
  /\ writes = 0
  /\ exitCode = -1
  /\ threw = FALSE
  /\ stagesDone = <<>>
  /\ scanState = "none"
  /\ scanned = <<>>
  /\ patchLog = <<>>
  /\ offs = <<>>
  /\ handed = <<>>
  /\ callbacks = 0

\* readFile(options.input): the contents of a regular file, '' otherwise.
readFile ==
  IF inputKind = "file" THEN fileText ELSE <<>>

\* writeFile with the arguments of fs.writeFileSync in the wrong order: the
\* file holds the path.
writeFile_SwappedArgs(path, contents) == path

\* writeFile(path, contents): what the file at path then holds.
writeFile(path, contents) == contents

\* An exception thrown with no handler: node prints it and exits with 1.
Uncaught ==
  /\ pc' = "exit"
  /\ exitCode' = 1
  /\ threw' = TRUE

\* ---------------------------------------------------- history of the patcher

\* Where each planned token's key stands in the scanned document: one past
\* the delimiter its match starts with.
InitOffs(ss) == [k \in 1..Len(ss) |-> ss[k].at + 1]

\* The entry for the k-th substitution in document s: where it replaced
\* (0: nowhere) and where the k-th token's own key stands.
LogEntry(s, ss, o, k) ==
  [k |-> k, pos |-> IndexFrom(KeyOf(ss[k]), s, 1), own |-> o[k]]

\* The positions after the k-th substitution in s: what stands after the
\* place of the replacement moves by the change of length.
ShiftOffs(s, ss, o, k) ==
  LET p == IndexFrom(KeyOf(ss[k]), s, 1)
      delta == Len(PatchOne(s, ss[k])) - Len(s)
  IN [j \in 1..Len(o) |-> IF p # 0 /\ o[j] > p THEN o[j] + delta ELSE o[j]]

RECURSIVE LogFrom(_, _, _, _)
LogFrom(s, ss, o, k) ==
  IF k > Len(ss) THEN <<>>
  ELSE <<LogEntry(s, ss, o, k)>>
       \o LogFrom(PatchOne(s, ss[k]), ss, ShiftOffs(s, ss, o, k), k + 1)

RECURSIVE OffsFrom(_, _, _, _)
OffsFrom(s, ss, o, k) ==
  IF k > Len(ss) THEN o
  ELSE OffsFrom(PatchOne(s, ss[k]), ss, ShiftOffs(s, ss, o, k), k + 1)

\* ---------------------------------------------------------------- the stages

\* initialize without the test of the text read: an unreadable or empty input
\* goes on through the stages as the empty document.
Initialize_NoGuard ==
  /\ pc = "initialize"
  /\ data' = [sql |-> readFile, count |-> countMatches(find, readFile)]
  /\ pc' = "reserialize"
  /\ stagesDone' = Append(stagesDone, "initialize")
  /\ UNCHANGED <<options, err, patcher, outFile, writes, exitCode, threw,
                 history>>

\* initialize(callback)
Initialize ==
  /\ pc = "initialize"
  /\ IF readFile = <<>>
     THEN /\ err' = TRUE
          /\ pc' = "complete"
          /\ UNCHANGED <<data, stagesDone>>
     ELSE /\ data' = [sql |-> readFile, count |-> countMatches(find, readFile)]
          /\ pc' = "reserialize"
          /\ stagesDone' = Append(stagesDone, "initialize")
          /\ UNCHANGED err
  /\ UNCHANGED <<options, patcher, outFile, writes, exitCode, threw, history>>

\* reserialize(data, callback) when find has no match: nothing is scanned.
ReserializeSkip ==
  /\ pc = "reserialize"
  /\ countMatches(find, data.sql) = 0
  /\ pc' = "rewrite"
  /\ handed' = data.sql
  /\ stagesDone' = Append(stagesDone, "reserialize")
  /\ UNCHANGED <<options, err, data, patcher, outFile, writes, exitCode,
                 threw, scanState, scanned, patchLog, offs, callbacks>>

\* reserialize -> rewriteSerializedSql -> findSerializedStrings throws.
ReserializeScanThrows ==
  /\ pc = "reserialize"
  /\ countMatches(find, data.sql) # 0
  /\ findSerializedStrings(data.sql).threw
  /\ Uncaught
  /\ scanState' = "threw"
  /\ UNCHANGED <<options, err, data, patcher, outFile, writes, stagesDone,
                 scanned, patchLog, offs, handed, callbacks>>

\* reserialize -> rewriteSerializedSql with no token matched: "stop if we
\* can", the callback gets the document as it is.
ReserializeNoMatch ==
  /\ pc = "reserialize"
  /\ countMatches(find, data.sql) # 0
  /\ LET scan == findSerializedStrings(data.sql)
     IN /\ ~scan.threw
        /\ ReplaceCountOf(scan.strings, find) = 0
        /\ scanned' = scan.strings
        /\ strings' = RemoveEmpties(PlanAll(scan.strings, find, replace))
  /\ scanState' = "ok"
  /\ sql' = data.sql
  /\ replaceCount' = 0
  /\ data' = [data EXCEPT !.sql = data.sql]
  /\ handed' = data.sql
  /\ callbacks' = callbacks + 1
  /\ pc' = "rewrite"
  /\ stagesDone' = Append(stagesDone, "reserialize")
  /\ UNCHANGED <<options, err, idx, bar, outFile, writes, exitCode, threw,
                 patchLog, offs>>

\* reserialize -> rewriteSerializedSql, verbose: the plan is made, the
\* progress bar is created with total: replaceCount and the interval timer
\* is set; the substitutions are left to the timer.
ReserializeTimer ==
  /\ pc = "reserialize"
  /\ countMatches(find, data.sql) # 0
  /\ verbose
  /\ LET scan == findSerializedStrings(data.sql)
         kept == RemoveEmpties(PlanAll(scan.strings, find, replace))
     IN /\ ~scan.threw
        /\ ReplaceCountOf(scan.strings, find) # 0
        /\ scanned' = scan.strings
        /\ strings' = kept
        /\ replaceCount' = ReplaceCountOf(scan.strings, find)
        /\ bar' = [curr |-> 0,
                   total |-> ReplaceCountOf(scan.strings, find),
                   complete |-> FALSE]
        /\ offs' = InitOffs(kept)
  /\ scanState' = "ok"
  /\ sql' = data.sql
  /\ idx' = 0
  /\ pc' = "timer"
  /\ UNCHANGED <<options, err, data, outFile, writes, exitCode, threw,
                 stagesDone, patchLog, handed, callbacks>>

\* reserialize -> rewriteSerializedSql, not verbose: the plan is made and
\* applied in one _.each loop, and the callback gets the patched document.
ReserializeSync ==
  /\ pc = "reserialize"
  /\ countMatches(find, data.sql) # 0
  /\ ~verbose
  /\ LET scan == findSerializedStrings(data.sql)
         kept == RemoveEmpties(PlanAll(scan.strings, find, replace))
         out == PatchAll(data.sql, kept, 1)
     IN /\ ~scan.threw
        /\ ReplaceCountOf(scan.strings, find) # 0
        /\ scanned' = scan.strings
        /\ strings' = kept
        /\ replaceCount' = ReplaceCountOf(scan.strings, find)
        /\ sql' = out
        /\ data' = [data EXCEPT !.sql = out]
        /\ handed' = out
        /\ patchLog' = LogFrom(data.sql, kept, InitOffs(kept), 1)
        /\ offs' = OffsFrom(data.sql, kept, InitOffs(kept), 1)
  /\ scanState' = "ok"
  /\ callbacks' = callbacks + 1
  /\ pc' = "rewrite"
  /\ stagesDone' = Append(stagesDone, "reserialize")
  /\ UNCHANGED <<options, err, idx, bar, outFile, writes, exitCode, threw>>

\* The timer callback when strings[idx] is undefined: reading .chars of it
\* throws a TypeError.
TickThrows ==
  /\ pc = "timer"
  /\ idx >= Len(strings)
  /\ Uncaught
  /\ UNCHANGED <<options, err, data, patcher, outFile, writes, stagesDone,
                 history>>

\* The timer callback: one substitution, idx++, bar.tick; when the bar is
\* complete (curr >= total) the timer is cleared and the callback gets the
\* document.
Tick ==
  /\ pc = "timer"
  /\ idx < Len(strings)
  /\ sql' = PatchOne(sql, strings[idx + 1])
  /\ idx' = idx + 1
  /\ bar' = [bar EXCEPT !.curr = bar.curr + 1,
                        !.complete = (bar.curr + 1 >= bar.total)]
  /\ patchLog' = Append(patchLog, LogEntry(sql, strings, offs, idx + 1))
  /\ offs' = ShiftOffs(sql, strings, offs, idx + 1)
  /\ IF bar'.complete
     THEN /\ data' = [data EXCEPT !.sql = sql']
          /\ handed' = sql'
          /\ callbacks' = callbacks + 1
          /\ pc' = "rewrite"
          /\ stagesDone' = Append(stagesDone, "reserialize")
     ELSE UNCHANGED <<data, handed, callbacks, pc, stagesDone>>
  /\ UNCHANGED <<options, err, strings, replaceCount, outFile, writes,
                 exitCode, threw, scanState, scanned>>

\* rewrite with the g flag left out: only the first match is replaced.
PlainRewrite_FirstOnly(s, f, r) ==
  IF countMatches(f, s) = 0 THEN s ELSE ReplaceFirst(s, f, r)

\* The body of rewrite(data, callback): the document it leaves in data.sql.
PlainRewrite(s, f, r) ==
  IF countMatches(f, s) = 0 THEN s ELSE ReplaceAll(s, f, r)

\* rewrite(data, callback)
Rewrite ==
  /\ pc = "rewrite"
  /\ data' = [data EXCEPT !.sql = PlainRewrite(data.sql, find, replace)]
  /\ pc' = "complete"
  /\ stagesDone' = Append(stagesDone, "rewrite")
  /\ UNCHANGED <<options, err, patcher, outFile, writes, exitCode, threw,
                 history>>

\* complete(err, data)
Complete ==
  /\ pc = "complete"
  /\ IF err
     THEN /\ exitCode' = 1
          /\ UNCHANGED <<outFile, writes>>
     ELSE /\ outFile' = writeFile(OutputPath, data.sql)
          /\ writes' = writes + 1
          /\ exitCode' = 0
  /\ pc' = "exit"
  /\ UNCHANGED <<options, err, data, patcher, threw, stagesDone, history>>

Next ==
  \/ Initialize
  \/ ReserializeSkip
  \/ ReserializeScanThrows
  \/ ReserializeNoMatch
  \/ ReserializeTimer
  \/ ReserializeSync
  \/ TickThrows
  \/ Tick
  \/ Rewrite
  \/ Complete

Spec == Init /\ [][Next]_vars

\* ----------------------------------------------------------------- the claims

\* The run ended with the output file written.
Ok == pc = "exit" /\ exitCode = 0

\* The value of token t with every match of find replaced.
NewValue(t) == ReplaceAll(t.value, find, replace)

\* C1: in a document whose one scanned token s:N:"V"; has N = length of V,
\* with every match of find inside V and a new value V' that is not empty
\* and holds no match of find, the output is the document with that token
\* replaced by s:M:"V'"; where M is the length of V', the delimiter before
\* it and all the rest unchanged.
C1_TokenRewrittenInPlace ==
  (/\ Ok
   /\ Len(scanned) = 1
   /\ scanned[1].chars = Len(scanned[1].value)
   /\ Test(find, scanned[1].value)
   /\ countMatches(find, fileText) = countMatches(find, scanned[1].value)
   /\ NewValue(scanned[1]) # <<>>
   /\ ~Test(find, NewValue(scanned[1])))
  => outFile = SubSeq(fileText, 1, scanned[1].at)
               \o Tok(Len(NewValue(scanned[1])), NewValue(scanned[1]))
               \o SubSeq(fileText, scanned[1].at + Len(scanned[1].source),
                         Len(fileText))

\* A serialized string s:N:"V"; stands at position i of doc, at the start
\* of doc or after a character that is no delimiter.
BareTokenAt(doc, i) ==
  /\ ScanMatchLen(<<";">> \o SubSeq(doc, i, Len(doc)), 1) > 0
  /\ (i = 1 \/ doc[i - 1] \notin Delims)

\* The token that stands at position i of doc.
BareToken(doc, i) ==
  LET s == <<";">> \o SubSeq(doc, i, Len(doc))
  IN TokenOf(i, SubSeq(s, 1, ScanMatchLen(s, 1)))

\* find holds none of the characters the syntax s:N:"..."; is made of.
SyntaxFree(w) ==
  \A k \in 1..Len(w) : w[k] \notin (Digits \cup {"s", ":", "\"", ";"})

\* C2, as the spec states it: a token at the start of the document or
\* after a character that is no delimiter, with find matching inside its
\* value, has its length prefix recomputed in the output: the output holds
\* s:M:"V'"; with M the length of the new value V'.
C2_BareTokenLengthRecomputed ==
  Ok =>
    \A i \in 1..Len(fileText) :
      (/\ BareTokenAt(fileText, i)
       /\ BareToken(fileText, i).chars = Len(BareToken(fileText, i).value)
       /\ Test(find, BareToken(fileText, i).value)
       /\ NewValue(BareToken(fileText, i)) # <<>>)
      => Contains(outFile,
                  Tok(Len(NewValue(BareToken(fileText, i))),
                      NewValue(BareToken(fileText, i))))

\* C2, amended: in a document with no token after a delimiter the scanner
\* records nothing, and the output is the document with every match of find
\* replaced; a token at the start or after another character keeps its
\* length prefix as written when find holds no character of the token
\* syntax: s:5:"hello"; with hello->hi yields s:5:"hi"; and
\* WHERE s:5:"hello"; with hello->goodbye yields WHERE s:5:"goodbye";
C2_BareTokenPlainRewritten ==
  (/\ pc = "exit"
   /\ inputKind = "file"
   /\ fileText # <<>>
   /\ ScanFrom(fileText, 1) = <<>>)
  => /\ Ok
     /\ scanned = <<>>
     /\ outFile = ReplaceAll(fileText, find, replace)
     /\ \A i \in 1..Len(fileText) :
          (BareTokenAt(fileText, i) /\ SyntaxFree(find.lit))
          => Contains(outFile,
                      Tok(BareToken(fileText, i).chars,
                          NewValue(BareToken(fileText, i))))
     /\ (fileText = Tok(5, hello) /\ find = Lit(hello) /\ replace = hi)
        => outFile = Tok(5, hi)
     /\ (fileText = DocWhere /\ find = Lit(hello) /\ replace = goodbye)
        => outFile = <<"W", "H", "E", "R", "E", " ">> \o Tok(5, goodbye)

\* C2's case: s:5:"hello"; with hello->hi was written out as s:5:"hi";
C2_Witness ==
  /\ Ok
  /\ fileText = Tok(5, hello)
  /\ find = Lit(hello)
  /\ replace = hi
  /\ writes = 1
  /\ outFile = Tok(5, hi)

\* The substitution leaves token t with nothing between its quotes.
EmptyRewrite(t) ==
  /\ Test(find, t.source)
  /\ ReplaceAll(t.source, find, replace)
       = SubSeq(t.source, 1, Len(t.source) - Len(t.value) - 2)
         \o <<"\"", ";">>

\* C3: a scanned token whose substitution would leave an empty string
\* between its quotes is not in the rewrite plan, and its original text
\* stands unmodified in the output.
C3_EmptyRewriteExcluded ==
  scanState = "ok" =>
    \A k \in 1..Len(scanned) :
      EmptyRewrite(scanned[k])
      => /\ \A j \in 1..Len(strings) : strings[j].at # scanned[k].at
         /\ Ok => Contains(outFile, scanned[k].source)

\* C4: for a non-empty input document in which find has no match, the run
\* ends with the output equal to the input, character for character; the
\* serialized stage scans nothing and hands the document on as it is.
C4_NoMatchIdentity ==
  (/\ pc = "exit"
   /\ inputKind = "file"
   /\ fileText # <<>>
   /\ countMatches(find, fileText) = 0)
  => /\ exitCode = 0
     /\ writes = 1
     /\ scanState = "none"
     /\ handed = fileText
     /\ outFile = fileText

\* C4's case: a document that holds a token after a delimiter and no match
\* of find went through all stages and was written out.
C4_Witness ==
  /\ Ok
  /\ countMatches(find, fileText) = 0
  /\ ScanFrom(fileText, 1) # <<>>
  /\ stagesDone = <<"initialize", "reserialize", "rewrite">>
  /\ outFile = fileText

AllStages == <<"initialize", "reserialize", "rewrite">>

\* C5: the output file is written at most once, and only after initialize,
\* reserialize and rewrite have completed without error in that order; a
\* run in which a stage fails (the input missing, not a regular file or
\* empty; an exception) runs no later stage, never writes the file and ends
\* with exit code 1; a run with no failure ends with exit code 0 after the
\* one write.
C5_WriteOnceOrFail ==
  /\ writes <= 1
  /\ \E n \in 0..3 : stagesDone = SubSeq(AllStages, 1, n)
  /\ writes = 1 => (stagesDone = AllStages /\ ~err /\ ~threw /\ Ok)
  /\ (readFile = <<>> /\ pc # "initialize") => err
  /\ err => (stagesDone = <<>> /\ pc \in {"complete", "exit"})
  /\ threw => pc = "exit"
  /\ (err \/ threw) => (writes = 0 /\ (pc = "exit" => exitCode = 1))
  /\ (pc = "exit" /\ ~err /\ ~threw) => (exitCode = 0 /\ writes = 1)
  /\ pc # "exit" => exitCode = -1

\* C5's case: the input path names no file; the run ended with exit code 1,
\* no stage after initialize ran and nothing was written.
C5_Witness ==
  /\ pc = "exit"
  /\ inputKind = "missing"
  /\ err
  /\ exitCode = 1
  /\ writes = 0
  /\ stagesDone = <<>>

\* The plan rewriteSerializedSql makes of the scanned tokens.
PlanOf(ss) == RemoveEmpties(PlanAll(ss, find, replace))

\* C6: the verbose run applies the substitutions the non-verbose loop
\* applies, in the same order, and hands the same patched document to the
\* next stage: once the tokens of a verbose run are scanned and its timer
\* is done, no exception ended it and the document handed on and the
\* substitutions made are those of the loop.
C6_VerboseAsSync ==
  (/\ verbose
   /\ scanState = "ok"
   /\ pc \notin {"reserialize", "timer"})
  => /\ ~threw
     /\ handed = PatchAll(fileText, PlanOf(scanned), 1)
     /\ replaceCount # 0
        => patchLog = LogFrom(fileText, PlanOf(scanned),
                              InitOffs(PlanOf(scanned)), 1)

\* C7: with two or more planned tokens, every substitution replaces text
\* at its own token's place: where the k-th substitution replaced is where
\* the k-th planned token's key stands.
C7_PatchAtOwnToken ==
  Len(strings) >= 2 =>
    \A k \in 1..Len(patchLog) : patchLog[k].pos = patchLog[k].own

\* C8: in verbose mode with a token matched, the bar's total is the number
\* of planned tokens, the index read on each tick is less than that number,
\* and after the timer each planned token was applied once, in order, and
\* the callback was called once.
C8_ProgressOverPlan ==
  /\ (verbose /\ pc = "timer")
     => (bar.total = Len(strings) /\ idx < Len(strings))
  /\ (verbose /\ scanState = "ok" /\ replaceCount # 0
      /\ pc \notin {"reserialize", "timer"})
     => /\ ~threw
        /\ callbacks = 1
        /\ bar.complete
        /\ Len(patchLog) = Len(strings)
        /\ \A k \in 1..Len(patchLog) : patchLog[k].k = k

\* The text of the one patched token in the document handed on.
PatchedText ==
  SubSeq(handed, patchLog[1].pos,
         patchLog[1].pos + Len(ReplacementOf(strings[1])) - 1)

\* C9: the plain rewrite pass leaves a patched token as the patcher left
\* it: with one token planned and patched at its own place, the token's text
\* in the document handed on stands in the output.
C9_PlainPassSparesPatched ==
  (/\ Ok
   /\ Len(strings) = 1
   /\ Len(patchLog) = 1
   /\ patchLog[1].pos # 0
   /\ patchLog[1].pos = patchLog[1].own)
  => Contains(outFile, PatchedText)

\* The digits of a token's source text.
DigitsOf(m) == SubSeq(m, 4, 3 + DigitRun(m, 4))

\* C10: once the scanner was called it has returned, without error, one
\* record per non-overlapping match of the pattern in order of appearance,
\* with source the matched text, chars the number its digits spell and
\* value the text between the quotes.
C10_ScanDecomposes ==
  scanState # "none" =>
    /\ scanState = "ok"
    /\ Len(scanned) = Len(ScanFrom(fileText, 1))
    /\ \A k \in 1..Len(scanned) :
         /\ scanned[k].source = ScanFrom(fileText, 1)[k].text
         /\ scanned[k].chars = parseInt(DigitsOf(scanned[k].source))
         /\ scanned[k].source
              = SubSeq(scanned[k].source, 1, 3)
                \o DigitsOf(scanned[k].source) \o <<":", "\"">>
                \o scanned[k].value \o <<"\"", ";">>

====
